---- MODULE Spec2Model ----
(***************************************************************************)
(* Model of the paint-mixing solver of palette-genie                       *)
(* (backend/python/services/paint_mixer.py, paint_brands.py).              *)
(*                                                                         *)
(* Numbers.  The program computes in float64.  The model keeps every       *)
(* quantity that the program derives from integers exact where it can      *)
(* (squared distances, determinants) and represents the others as scaled   *)
(* integers:                                                               *)
(*   - a distance is held in units of 1e-6 (Micro units per 1.0), so that  *)
(*     the program's 1e-6 guard is exactly one unit; its square root is    *)
(*     taken to 1/SqrtScale;                                               *)
(*   - a mixing ratio is held in units of 1/RatioScale;                    *)
(*   - a mixed colour is held in units of 1/MixScale per channel.          *)
(* TLC integers are 32 bits wide: MulDiv multiplies and divides without    *)
(* forming the wide product.                                               *)
(***************************************************************************)
EXTENDS Integers, Sequences, FiniteSets, TLC

VARIABLES
  target_colors,   \* argument: the list of target rgb triples
  algorithm,       \* argument: the algorithm name
  user_brand,      \* argument: [present, text]; None is not present
  pc,              \* "idle", "loop", "done" (returned) or "raised"
  idx,             \* position of the for loop in target_colors
  paint_mixes,     \* the local list the loop appends to
  returned,        \* the list handed to the caller, <<>> until then
  error,           \* the message of the exception handed to the caller
  log,             \* what the solve of the last target went through
  arg,             \* the argument of a helper applied on its own
  result,          \* what the helper returned, "none" before the call
  image,           \* extract_dominant_colors argument: the BGR pixels, flattened
  num_colors,      \* extract_dominant_colors argument
  ambient,         \* how far the process-wide random generator has advanced
  calls,           \* how many extract_dominant_colors calls have started
  epc,             \* position of the running extract_dominant_colors call
  kmeans,          \* the state of KMeans.fit
  extracted,       \* what the last extract_dominant_colors call returned
  outcomes,        \* the outcome of every finished call, in order
  catalog,         \* PaintBrands.brands: the rgb list of every brand color
  held             \* the recipes callers hold, with what their colors refer to

mixer_vars == <<target_colors, algorithm, user_brand, pc, idx, paint_mixes, returned, error, log>>
helper_vars == <<arg, result>>
extractor_vars == <<image, num_colors, ambient, calls, epc, kmeans, extracted, outcomes>>
sharing_vars == <<catalog, held>>
vars == <<mixer_vars, helper_vars, extractor_vars, sharing_vars>>

---------------------------------------------------------------------------
(* Bounds and scales *)

MaxTargets == 2
MaxRatios == 4
SqrtScale == 100
RatioScale == 100000000
MixScale == 100

(* 1e-6, the guard added to every distance, in Micro units *)
Micro == 1000000
Eps == 1

---------------------------------------------------------------------------
(* Integer helpers standing for the program's float arithmetic *)

(* <<q, r>> with a * b = q * c + r and 0 <= r < c, for 0 < c < 2^30, by
   doubling: no intermediate value exceeds 2 * c *)
MulDivQR[a \in Nat, b \in Nat, c \in Nat] ==
  IF b = 0 THEN <<0, 0>>
  ELSE LET h == MulDivQR[a, b \div 2, c]
           add == IF b % 2 = 1 THEN a ELSE 0
           twice == 2 * h[2]
           tot == (twice % c) + (add % c)
       IN <<2 * h[1] + (twice \div c) + (add \div c) + (tot \div c), tot % c>>

(* floor(a * b / c) *)
MulDiv(a, b, c) == MulDivQR[a, b, c][1]

ISqrtIter[n \in Nat, lo \in Nat, hi \in Nat] ==
  IF lo = hi THEN lo
  ELSE LET mid == (lo + hi + 1) \div 2
       IN IF mid * mid <= n THEN ISqrtIter[n, mid, hi] ELSE ISqrtIter[n, lo, mid - 1]

(* floor of the square root of n < 2^31 *)
ISqrt(n) == ISqrtIter[n, 0, 46340]

RECURSIVE SumSeq(_)
SumSeq(s) == IF s = <<>> THEN 0 ELSE Head(s) + SumSeq(Tail(s))

Max(a, b) == IF a >= b THEN a ELSE b
Min(a, b) == IF a <= b THEN a ELSE b
Abs(a) == IF a >= 0 THEN a ELSE -a

(* squared Euclidean distance of two rgb triples: np.linalg.norm(a - b)^2 *)
DistSq(a, b) ==
  (a[1] - b[1]) * (a[1] - b[1]) + (a[2] - b[2]) * (a[2] - b[2])
    + (a[3] - b[3]) * (a[3] - b[3])

(* np.linalg.norm(a - b), in Micro units, to 1/SqrtScale *)
Norm(a, b) == MulDiv(ISqrt(DistSq(a, b) * SqrtScale * SqrtScale), Micro, SqrtScale)

---------------------------------------------------------------------------
(* The catalogs *)

(* _load_base_paints: the generic catalog, in insertion order *)
BasePaints ==
  << [name |-> "Titanium White",   brand |-> "Generic", rgb |-> <<255, 255, 255>>],
     [name |-> "Ivory Black",      brand |-> "Generic", rgb |-> <<0, 0, 0>>],
     [name |-> "Cadmium Red",      brand |-> "Generic", rgb |-> <<227, 0, 34>>],
     [name |-> "Cadmium Yellow",   brand |-> "Generic", rgb |-> <<255, 246, 0>>],
     [name |-> "Ultramarine Blue", brand |-> "Generic", rgb |-> <<18, 10, 143>>],
     [name |-> "Phthalo Green",    brand |-> "Generic", rgb |-> <<0, 100, 0>>],
     [name |-> "Burnt Sienna",     brand |-> "Generic", rgb |-> <<138, 51, 36>>],
     [name |-> "Raw Umber",        brand |-> "Generic", rgb |-> <<130, 102, 68>>],
     [name |-> "Cobalt Blue",      brand |-> "Generic", rgb |-> <<0, 71, 171>>],
     [name |-> "Viridian Green",   brand |-> "Generic", rgb |-> <<64, 130, 109>> ] >>

NorthhavenColors ==
  << [name |-> "Titanium White",   brand |-> "Northhaven", rgb |-> <<255, 255, 255>>],
     [name |-> "Burnt Sienna",     brand |-> "Northhaven", rgb |-> <<160, 82, 45>>],
     [name |-> "Ultramarine Blue", brand |-> "Northhaven", rgb |-> <<18, 10, 143>>],
     [name |-> "Cadmium Red",      brand |-> "Northhaven", rgb |-> <<227, 0, 34>>],
     [name |-> "Cadmium Yellow",   brand |-> "Northhaven", rgb |-> <<255, 246, 0>>] >>

LiquitexColors ==
  << [name |-> "Titanium White",       brand |-> "Liquitex", rgb |-> <<255, 255, 255>>],
     [name |-> "Phthalo Blue",         brand |-> "Liquitex", rgb |-> <<0, 15, 137>>],
     [name |-> "Quinacridone Magenta", brand |-> "Liquitex", rgb |-> <<142, 0, 62>>] >>

GoldenColors ==
  << [name |-> "Titanium White",   brand |-> "Golden", rgb |-> <<255, 255, 255>>],
     [name |-> "Cobalt Blue",      brand |-> "Golden", rgb |-> <<0, 71, 171>>],
     [name |-> "Alizarin Crimson", brand |-> "Golden", rgb |-> <<227, 38, 54>>] >>

(* PaintBrands.brands: brand name (as characters) -> its colors, in insertion order *)
Brands ==
  << [name |-> <<"N", "o", "r", "t", "h", "h", "a", "v", "e", "n">>, colors |-> NorthhavenColors],
     [name |-> <<"L", "i", "q", "u", "i", "t", "e", "x">>,           colors |-> LiquitexColors],
     [name |-> <<"G", "o", "l", "d", "e", "n">>,                     colors |-> GoldenColors] >>

(* str.lower() on the characters that occur *)
LowerChar(c) ==
  CASE c = "N" -> "n" [] c = "L" -> "l" [] c = "G" -> "g" [] c = "A" -> "a"
    [] c = "O" -> "o" [] c = "D" -> "d" [] c = "E" -> "e"
    [] OTHER -> c

Lower(s) == [i \in 1..Len(s) |-> LowerChar(s[i])]

(* Python's  s in t  for strings *)
IsSubstring(s, t) ==
  \E i \in 0..(Len(t) - Len(s)) : SubSeq(t, i + 1, i + Len(s)) = s

RECURSIVE FirstMatchingBrand(_, _)
(* the loop of get_brand_colors from brand index k on; <<>> when none matches *)
FirstMatchingBrand(brand_name_lower, k) ==
  IF k > Len(Brands) THEN <<>>
  ELSE IF IsSubstring(brand_name_lower, Lower(Brands[k].name)) THEN Brands[k].colors
  ELSE FirstMatchingBrand(brand_name_lower, k + 1)

(* PaintBrands.get_brand_colors *)
get_brand_colors(brand_name) == FirstMatchingBrand(Lower(brand_name), 1)

---------------------------------------------------------------------------
(* Shared post-processing *)

AchievableDistance == 50
BatchVolume == 100
BaseCostPerMlCents == 5

(* mixed_rgb of _can_achieve_target, the sum of paint_rgb * ratio over
   zip(base_colors, ratios), in units of 1/MixScale per channel *)
MixedRgb(base_colors, ratios) ==
  [c \in 1..3 |->
     SumSeq([i \in 1..Min(Len(base_colors), Len(ratios)) |->
               MulDiv(ratios[i], base_colors[i].rgb[c] * MixScale, RatioScale)])]

(* squared distance of the reconstructed mix to the target, in 1/MixScale^2 *)
MixDistSq(target, base_colors, ratios) ==
  DistSq(MixedRgb(base_colors, ratios), [c \in 1..3 |-> target[c] * MixScale])

(* PaintMixer._can_achieve_target *)
can_achieve_target(target, base_colors, ratios) ==
  IF base_colors = <<>> \/ ratios = <<>> THEN FALSE
  ELSE MixDistSq(target, base_colors, ratios)
         < (AchievableDistance * MixScale) * (AchievableDistance * MixScale)

DifficultyOffByOne(ratios) ==
  IF Len(ratios) < 2 THEN "easy"
  ELSE IF Len(ratios) < 3 THEN "medium"
  ELSE "hard"

(* PaintMixer._calculate_difficulty *)
calculate_difficulty(ratios) ==
  IF Len(ratios) <= 2 THEN "easy"
  ELSE IF Len(ratios) <= 3 THEN "medium"
  ELSE "hard"

(* PaintMixer._calculate_cost, in cents: round(sum(ratio * 100 * 0.05), 2) *)
calculate_cost(base_colors, ratios) ==
  (MulDiv(SumSeq(SubSeq(ratios, 1, Min(Len(base_colors), Len(ratios)))),
          2 * BatchVolume * BaseCostPerMlCents, RatioScale) + 1) \div 2

(* the PaintMix a strategy returns; instructions are presentation text and
   are not modelled here *)
PaintMix(target, base_colors, ratios, uses_available, missing) ==
  [ target_color |-> target,
    base_colors |-> base_colors,
    mixing_ratios |-> ratios,
    difficulty |-> calculate_difficulty(ratios),
    estimated_cost |-> calculate_cost(base_colors, ratios),
    uses_available_paints |-> uses_available,
    missing_paints |-> missing ]

---------------------------------------------------------------------------
(* Inverse-distance weighting of the three closest paints
   (_k_nearest_mix lines 138-156, _brand_specific_mix lines 71-92) *)

SortRankTiesReversed(cat, target, i) ==
  1 + Cardinality({j \in 1..Len(cat) :
        \/ DistSq(target, cat[j].rgb) < DistSq(target, cat[i].rgb)
        \/ /\ DistSq(target, cat[j].rgb) = DistSq(target, cat[i].rgb)
           /\ j > i})

(* position of paint i after the stable sort by distance; the float
   distances order exactly as the integer squared distances do *)
SortRank(cat, target, i) ==
  1 + Cardinality({j \in 1..Len(cat) :
        \/ DistSq(target, cat[j].rgb) < DistSq(target, cat[i].rgb)
        \/ /\ DistSq(target, cat[j].rgb) = DistSq(target, cat[i].rgb)
           /\ j < i})

(* distances.sort(key=lambda x: x[0]); closest_paints = distances[:3] *)
ClosestPaints(cat, target) ==
  [k \in 1..Min(3, Len(cat)) |-> cat[CHOOSE i \in 1..Len(cat) : SortRank(cat, target, i) = k]]

GuardedDistancesPlusOne(closest, target) ==
  [k \in 1..Len(closest) |-> Norm(target, closest[k].rgb) + Micro]

(* d + 1e-6 for each closest paint, in Micro units *)
GuardedDistances(closest, target) ==
  [k \in 1..Len(closest) |-> Norm(target, closest[k].rgb) + Eps]

(* 1 / (d + 1e-6) for each closest paint, relative to the largest weight
   (that of the first, closest paint) and scaled by RatioScale; the ratio
   weight / total_weight below does not depend on that common factor *)
InverseDistanceWeights(closest, target) ==
  LET g == GuardedDistances(closest, target)
  IN [k \in 1..Len(closest) |-> MulDiv(g[1], RatioScale, g[k])]

InverseDistanceRatiosTotalOverAll(cat, target) ==
  LET g == [k \in 1..Len(cat) |-> Norm(target, cat[k].rgb) + Eps]
      nearest == GuardedDistances(ClosestPaints(cat, target), target)[1]
      w == InverseDistanceWeights(ClosestPaints(cat, target), target)
      total == SumSeq([k \in 1..Len(cat) |-> MulDiv(nearest, RatioScale, g[k])])
  IN [k \in 1..Len(w) |-> MulDiv(w[k], RatioScale, total)]

(* total_weight = sum(1 / (d[0] + 1e-6) for d in closest_paints);
   ratio = (1 / (distance + 1e-6)) / total_weight *)
InverseDistanceRatios(cat, target) ==
  LET w == InverseDistanceWeights(ClosestPaints(cat, target), target)
  IN [k \in 1..Len(w) |-> MulDiv(w[k], RatioScale, SumSeq(w))]

(* PaintMixer._k_nearest_mix *)
k_nearest_mix(target) ==
  PaintMix(target, ClosestPaints(BasePaints, target),
           InverseDistanceRatios(BasePaints, target), FALSE, <<>>)

---------------------------------------------------------------------------
(* np.linalg.lstsq(paint_matrix, target_rgb, rcond=None) *)

YReduce == 262144

Det3(m) ==
    m[1][1] * (m[2][2] * m[3][3] - m[2][3] * m[3][2])
  - m[1][2] * (m[2][1] * m[3][3] - m[2][3] * m[3][1])
  + m[1][3] * (m[2][1] * m[3][2] - m[2][2] * m[3][1])

(* m with column j replaced by b *)
ReplaceColumn(m, j, b) ==
  [i \in 1..3 |-> [k \in 1..3 |-> IF k = j THEN b[i] ELSE m[i][k]]]

Dot(u, v) == u[1] * v[1] + u[2] * v[2] + u[3] * v[3]

IsZeroRow(u) == u = <<0, 0, 0>>

(* The minimum-norm least-squares solution of m x = b for a 3 x 3 matrix m
   of rank 2 whose row z is zero: with B the two other rows, G = B B^T and
   s the entries of b facing them, x = B^T G^-1 s.  Returned up to the
   positive factor det G, and with adj(G) s reduced to YReduce so that the
   products stay in range. *)
MinNormZeroRow(m, b, z) ==
  LET r1 == CHOOSE i \in 1..3 : i # z /\ \A k \in 1..3 : k # z => i <= k
      r2 == CHOOSE i \in 1..3 : i # z /\ i # r1
      g11 == Dot(m[r1], m[r1])
      g12 == Dot(m[r1], m[r2])
      g22 == Dot(m[r2], m[r2])
      y1 == g22 * b[r1] - g12 * b[r2]
      y2 == g11 * b[r2] - g12 * b[r1]
      k == (Max(Abs(y1), Abs(y2)) \div YReduce) + 1
      z1 == IF y1 >= 0 THEN y1 \div k ELSE -((-y1) \div k)
      z2 == IF y2 >= 0 THEN y2 \div k ELSE -((-y2) \div k)
  IN [j \in 1..3 |-> m[r1][j] * z1 + m[r2][j] * z2]

(* The solution x of lstsq, up to a positive common factor (every later use
   clamps and normalises, or compares with 0).  a is M x N and b must have
   M entries, else numpy raises LinAlgError("Incompatible dimensions"); the
   rows of every matrix the program builds are rgb triples, so N = 3 and
   the call succeeds only for M = 3. *)
Lstsq(m, b) ==
  IF Len(m) # Len(b) THEN [ raised |-> TRUE, x |-> <<>> ]
  ELSE LET d == Det3(m)
       IN IF d # 0
          THEN [ raised |-> FALSE,
                 x |-> [j \in 1..3 |-> IF d > 0 THEN Det3(ReplaceColumn(m, j, b))
                                       ELSE -Det3(ReplaceColumn(m, j, b))] ]
          ELSE IF \E z \in 1..3 : IsZeroRow(m[z])
          THEN [ raised |-> FALSE,
                 x |-> MinNormZeroRow(m, b, CHOOSE z \in 1..3 : IsZeroRow(m[z])) ]
          ELSE [ raised |-> FALSE, x |-> <<0, 0, 0>> ]

(* ratios = np.maximum(ratios, 0) *)
ClampNegative(x) == [j \in 1..Len(x) |-> Max(x[j], 0)]

(* ratios = ratios / np.sum(ratios), as numerators over their own sum *)
Normalize(x) ==
  LET total == SumSeq(x)
  IN [j \in 1..Len(x) |-> MulDiv(x[j], RatioScale, total)]

---------------------------------------------------------------------------
(* PaintMixer._optimization_mix *)

(* itertools.combinations(paint_names, k): strictly increasing index tuples *)
Combinations(n, k) ==
  {c \in [1..k -> 1..n] : \A i \in 1..(k - 1) : c[i] < c[i + 1]}

(* the order in which the two nested loops visit the combinations *)
VisitedBefore(c1, c2) ==
  \/ Len(c1) < Len(c2)
  \/ /\ Len(c1) = Len(c2)
     /\ \E i \in 1..Len(c1) : c1[i] < c2[i] /\ \A j \in 1..(i - 1) : c1[j] = c2[j]

(* for num_paints in range(2, min(5, len(paint_names) + 1)) *)
PaintCombos ==
  UNION {Combinations(Len(BasePaints), k) : k \in 2..(Min(5, Len(BasePaints) + 1) - 1)}

(* the body of the inner loop for one combination: the candidate, if any *)
EvalCombo(combo, target) ==
  LET paints == [i \in 1..Len(combo) |-> BasePaints[combo[i]]]
      paint_matrix == [i \in 1..Len(combo) |-> paints[i].rgb]
      sol == Lstsq(paint_matrix, target)
      clamped == ClampNegative(sol.x)
  IN IF sol.raised \/ SumSeq(clamped) <= 0
     THEN [ combo |-> combo, candidate |-> FALSE, raised |-> sol.raised ]
     ELSE LET ratios == Normalize(clamped)
          IN [ combo |-> combo, candidate |-> TRUE, raised |-> FALSE,
               paints |-> paints, ratios |-> ratios,
               distance |-> MixDistSq(target, paints, ratios) ]

(* else: return await self._k_nearest_mix(target_color) *)
OptimizationFallback(target) == k_nearest_mix(target)

(* if distance < best_distance: the first visited candidate of least distance *)
BestCandidate(cands) ==
  CHOOSE e \in cands : \A e2 \in cands \ {e} :
    \/ e.distance < e2.distance
    \/ e.distance = e2.distance /\ VisitedBefore(e.combo, e2.combo)

(* the candidates the two loops record, one per combination that solves *)
Candidates(target) ==
  {e \in {EvalCombo(c, target) : c \in PaintCombos} : e.candidate}

optimization_mix(target) ==
  LET cands == Candidates(target)
  IN IF cands # {}
     THEN LET best == BestCandidate(cands)
          IN PaintMix(target, best.paints, best.ratios, FALSE, <<>>)
     ELSE OptimizationFallback(target)

---------------------------------------------------------------------------
(* PaintMixer._linear_combination_mix *)

SignificanceDivisor == 100

(* position of index i in np.argsort(ratios)[::-1]: largest ratio first *)
DescendingRank(ratios, i) ==
  1 + Cardinality({j \in 1..Len(ratios) :
        ratios[j] > ratios[i] \/ (ratios[j] = ratios[i] /\ j > i)})

(* top_indices = np.argsort(ratios)[-3:][::-1] *)
TopIndices(ratios) ==
  [k \in 1..Min(3, Len(ratios)) |->
     CHOOSE i \in 1..Len(ratios) : DescendingRank(ratios, i) = k]

(* the lines after a successful lstsq: clamp, normalise, keep the top 3
   ratios above 0.01, normalise again *)
LinearSolvedMix(target, cat, x) ==
  LET clamped == ClampNegative(x)
      ratios == IF SumSeq(clamped) > 0 THEN Normalize(clamped) ELSE clamped
      top == TopIndices(ratios)
      kept == SelectSeq(top, LAMBDA i : ratios[i] > RatioScale \div SignificanceDivisor)
      significant == [k \in 1..Len(kept) |-> ratios[kept[k]]]
      base_colors == [k \in 1..Len(kept) |-> cat[kept[k]]]
      mixing_ratios == [k \in 1..Len(kept) |->
                          MulDiv(significant[k], RatioScale, SumSeq(significant))]
  IN PaintMix(target, base_colors, mixing_ratios, FALSE, <<>>)

LinAlgFallbackEmpty(target) ==
  PaintMix(target, <<>>, <<>>, FALSE, <<>>)

(* except np.linalg.LinAlgError: return await self._k_nearest_mix(target_color) *)
LinAlgFallback(target) == k_nearest_mix(target)

(* paint_matrix: one row per base paint *)
PaintMatrix(cat) == [i \in 1..Len(cat) |-> cat[i].rgb]

linear_combination_mix(target) ==
  LET sol == Lstsq(PaintMatrix(BasePaints), target)
  IN IF sol.raised THEN LinAlgFallback(target)
     ELSE LinearSolvedMix(target, BasePaints, sol.x)

linear_combination_events(target) ==
  IF Lstsq(PaintMatrix(BasePaints), target).raised
  THEN <<"linear_combination", "LinAlgError", "k_nearest">>
  ELSE <<"linear_combination", "lstsq">>

optimization_events(target) ==
  IF Candidates(target) # {} THEN <<"optimization", "lstsq">>
  ELSE <<"optimization", "k_nearest">>

---------------------------------------------------------------------------
(* PaintMixer._brand_specific_mix *)

(* if not brand_colors: ... return await self._k_nearest_mix(target_color) *)
BrandFallback(target) == k_nearest_mix(target)

MissingNoteAlways(can_achieve) == <<"Additional colors may be needed">>

(* missing_paints=[] if can_achieve else ["Additional colors may be needed"] *)
MissingNote(can_achieve) ==
  IF can_achieve THEN <<>> ELSE <<"Additional colors may be needed">>

brand_specific_mix(target, brand_name) ==
  LET brand_colors == get_brand_colors(brand_name)
  IN IF brand_colors = <<>> THEN BrandFallback(target)
     ELSE LET closest == ClosestPaints(brand_colors, target)
              mixing_ratios == InverseDistanceRatios(brand_colors, target)
          IN PaintMix(target, closest, mixing_ratios, TRUE,
                      MissingNote(can_achieve_target(target, closest, mixing_ratios)))

brand_specific_events(target, brand_name) ==
  IF get_brand_colors(brand_name) = <<>>
  THEN <<"brand_specific", "no colors found for brand", "k_nearest">>
  ELSE <<"brand_specific">>

---------------------------------------------------------------------------
(* Inputs *)

(* target colors: catalog entries (white, black, cobalt blue), colors
   between them, and one at equal distance from Ivory Black and Phthalo Green *)
Targets ==
  { <<0, 0, 0>>, <<255, 255, 255>>, <<0, 71, 171>>,
    <<64, 0, 64>>, <<128, 0, 128>>, <<230, 30, 50>>,
    <<0, 50, 80>> }

(* self.mixing_algorithms: the registered names *)
MixingAlgorithms == {"k_nearest", "linear_combination", "optimization", "brand_specific"}

(* algorithm names a caller passes: the registered ones and one that is not *)
AlgorithmNames == MixingAlgorithms \cup {"genetic"}

None == [present |-> FALSE, text |-> <<>>]
Str(chars) == [present |-> TRUE, text |-> chars]

(* user_brand values: None, "", registered names in two spellings, a part
   of a name, and a name no brand contains *)
BrandTexts ==
  { <<>>,
    <<"G", "o", "l", "d", "e", "n">>,
    <<"l", "i", "q", "u", "i", "t", "e", "x">>,
    <<"N", "o", "r", "t", "h", "h", "a", "v", "e", "n">>,
    <<"g", "o", "l", "d">>,
    <<"A", "c", "m", "e">> }

UserBrands == {None} \cup {Str(b) : b \in BrandTexts}

(* Python truthiness of user_brand *)
Truthy(b) == b.present /\ b.text # <<>>

(* the brand names a caller may rely on: those of PaintBrands.brands *)
IsRegisteredBrand(chars) == \E k \in 1..Len(Brands) : Lower(Brands[k].name) = Lower(chars)

TargetLists == UNION {[1..n -> Targets] : n \in 1..MaxTargets}

---------------------------------------------------------------------------
(* The strategies on the inputs above, evaluated once *)

KNearestOf == [t \in Targets |-> k_nearest_mix(t)]
LinearCombinationOf == [t \in Targets |-> linear_combination_mix(t)]
LinearCombinationEventsOf == [t \in Targets |-> linear_combination_events(t)]
OptimizationOf == [t \in Targets |-> optimization_mix(t)]
OptimizationEventsOf == [t \in Targets |-> optimization_events(t)]
BrandSpecificOf == [b \in BrandTexts |-> [t \in Targets |-> brand_specific_mix(t, b)]]

---------------------------------------------------------------------------
(* PaintMixer.generate_mixing_ratios *)

(* KMeans before fit *)
KMeansIdle ==
  [ rng |-> 0, run |-> 0, iter |-> 0, centers |-> <<>>, closest |-> <<>>,
    labels |-> <<>>, labels_old |-> <<>>, strict |-> FALSE,
    best |-> [inertia |-> -1, centers |-> <<>>, labels |-> <<>>] ]

(* no tiers *)
NothingExtracted ==
  [ dominant_colors |-> <<>>, secondary_colors |-> <<>>, tertiary_colors |-> <<>>,
    color_distribution |-> [dominant |-> 0, secondary |-> 0, tertiary |-> 0] ]

(* ColorAnalyzer with no extract_dominant_colors call made *)
(* the rgb list of every brand color, as PaintBrands.__init__ builds them *)
InitialCatalog ==
  [b \in 1..Len(Brands) |-> [i \in 1..Len(Brands[b].colors) |-> Brands[b].colors[i].rgb]]

(* a PaintMixer that has handed out no recipe yet *)
SharingIdle ==
  /\ catalog = InitialCatalog
  /\ held = <<>>

ExtractorIdle ==
  /\ image = <<>>
  /\ num_colors = 15
  /\ ambient = 0
  /\ calls = 0
  /\ epc = "idle"
  /\ kmeans = KMeansIdle
  /\ extracted = NothingExtracted
  /\ outcomes = <<>>

MixerIdle ==
  /\ target_colors = <<>>
  /\ algorithm = "brand_specific"
  /\ user_brand = None
  /\ pc = "idle"
  /\ idx = 0
  /\ paint_mixes = <<>>
  /\ returned = <<>>
  /\ error = ""
  /\ log = <<>>

Init ==
  /\ MixerIdle
  /\ ExtractorIdle
  /\ SharingIdle
  /\ arg = <<>>
  /\ result = "none"

(* a caller invokes generate_mixing_ratios(target_colors, algorithm, user_brand) *)
Call ==
  /\ pc = "idle"
  /\ \E tc \in TargetLists, a \in AlgorithmNames, b \in UserBrands :
       /\ target_colors' = tc
       /\ algorithm' = a
       /\ user_brand' = b
  /\ pc' = "loop"
  /\ idx' = 1
  /\ paint_mixes' = <<>>
  /\ UNCHANGED <<returned, error, log, helper_vars, extractor_vars, sharing_vars>>

InLoop == pc = "loop" /\ idx <= Len(target_colors)

PrependMix(mix, events) ==
  /\ paint_mixes' = <<mix>> \o paint_mixes
  /\ idx' = idx + 1
  /\ log' = events
  /\ UNCHANGED <<target_colors, algorithm, user_brand, pc, returned, error, helper_vars, extractor_vars, sharing_vars>>

(* paint_mixes.append(mix), and the loop moves to the next target *)
Append1(mix, events) ==
  /\ paint_mixes' = Append(paint_mixes, mix)
  /\ idx' = idx + 1
  /\ log' = events
  /\ UNCHANGED <<target_colors, algorithm, user_brand, pc, returned, error, helper_vars, extractor_vars, sharing_vars>>

(* except Exception as e: raise Exception("Failed to generate mixing ratios: ...") *)
Raise(events) ==
  /\ pc' = "raised"
  /\ error' = "Failed to generate mixing ratios"
  /\ log' = events
  /\ UNCHANGED <<target_colors, algorithm, user_brand, idx, paint_mixes, returned, helper_vars, extractor_vars, sharing_vars>>

(* if algorithm == "brand_specific" and user_brand *)
SolveBrandSpecific ==
  /\ InLoop
  /\ algorithm = "brand_specific" /\ Truthy(user_brand)
  /\ Append1(BrandSpecificOf[user_brand.text][target_colors[idx]],
             brand_specific_events(target_colors[idx], user_brand.text))

(* elif algorithm in self.mixing_algorithms:
       mix = await self.mixing_algorithms[algorithm](target_color)
   _brand_specific_mix needs brand_name: called with the target alone it
   raises TypeError *)
SolveRegistered ==
  /\ InLoop
  /\ ~(algorithm = "brand_specific" /\ Truthy(user_brand))
  /\ algorithm \in MixingAlgorithms
  /\ CASE algorithm = "k_nearest" ->
            Append1(KNearestOf[target_colors[idx]], <<"k_nearest">>)
       [] algorithm = "linear_combination" ->
            Append1(LinearCombinationOf[target_colors[idx]],
                    LinearCombinationEventsOf[target_colors[idx]])
       [] algorithm = "optimization" ->
            Append1(OptimizationOf[target_colors[idx]],
                    OptimizationEventsOf[target_colors[idx]])
       [] algorithm = "brand_specific" ->
            Raise(<<"brand_specific", "TypeError">>)

(* else: if user_brand: mix = await self._brand_specific_mix(target_color, user_brand) *)
SolveDefaultBrand ==
  /\ InLoop
  /\ algorithm \notin MixingAlgorithms
  /\ Truthy(user_brand)
  /\ Append1(BrandSpecificOf[user_brand.text][target_colors[idx]],
             brand_specific_events(target_colors[idx], user_brand.text))

(* else: mix = await self._k_nearest_mix(target_color) *)
SolveDefaultKNearest ==
  /\ InLoop
  /\ algorithm \notin MixingAlgorithms
  /\ ~Truthy(user_brand)
  /\ Append1(KNearestOf[target_colors[idx]], <<"k_nearest">>)

(* return paint_mixes *)
Return ==
  /\ pc = "loop" /\ idx > Len(target_colors)
  /\ pc' = "done"
  /\ returned' = paint_mixes
  /\ UNCHANGED <<target_colors, algorithm, user_brand, idx, paint_mixes, error, log, helper_vars, extractor_vars, sharing_vars>>

Next ==
  \/ Call
  \/ SolveBrandSpecific
  \/ SolveRegistered
  \/ SolveDefaultBrand
  \/ SolveDefaultKNearest
  \/ Return

Spec == Init /\ [][Next]_vars

---------------------------------------------------------------------------
(* _calculate_difficulty applied on its own to lists of up to MaxRatios ratios *)

RatioValues == {0, RatioScale \div 2, RatioScale}

RatioLists == UNION {[1..n -> RatioValues] : n \in 0..MaxRatios}

InitDifficulty ==
  /\ MixerIdle
  /\ ExtractorIdle
  /\ SharingIdle
  /\ arg \in RatioLists
  /\ result = "none"

ApplyDifficulty ==
  /\ result = "none"
  /\ result' = calculate_difficulty(arg)
  /\ UNCHANGED <<arg, mixer_vars, extractor_vars, sharing_vars>>

NextDifficulty == ApplyDifficulty

SpecDifficulty == InitDifficulty /\ [][NextDifficulty]_vars

---------------------------------------------------------------------------
(* Which strategy the dispatch of generate_mixing_ratios runs for the
   arguments of the current call *)

RunsBrandSpecific ==
  Truthy(user_brand) /\ (algorithm = "brand_specific" \/ algorithm \notin MixingAlgorithms)

RunsKNearest ==
  algorithm = "k_nearest" \/ (algorithm \notin MixingAlgorithms /\ ~Truthy(user_brand))

(* the targets the loop has solved so far *)
Solved == 1..Len(paint_mixes)

(* the distance of a recipe's reconstructed mix to its target, in 1/MixScale *)
MixDistance(mix) ==
  ISqrt(MixDistSq(mix.target_color, mix.base_colors, mix.mixing_ratios))

IsCatalogColor(rgb) == \E k \in 1..Len(BasePaints) : BasePaints[k].rgb = rgb

---------------------------------------------------------------------------
(* C1: every recipe a strategy hands back has ratios that are all >= 0 and
   sum to 1.0 within 1e-6. *)
C1_RatioConservation ==
  \A i \in Solved :
    LET r == paint_mixes[i].mixing_ratios
    IN /\ \A k \in 1..Len(r) : r[k] >= 0
       /\ Abs(SumSeq(r) - RatioScale) <= RatioScale \div 1000000

C1_Witness ==
  /\ pc = "done"
  /\ algorithm = "optimization"
  /\ log = <<"optimization", "lstsq">>
  /\ \E i \in 1..Len(returned) :
       \E k \in 1..3 : returned[i].mixing_ratios[k] \notin {0, RatioScale}

(* C2: _brand_specific_mix, called with a brand name that matches no brand,
   fails with an error and hands back no recipe. *)
C2_UnknownBrandRaises ==
  (RunsBrandSpecific /\ get_brand_colors(user_brand.text) = <<>>)
    => (paint_mixes = <<>> /\ pc # "done")

(* C3: every base color of a recipe the brand strategy hands back for brand B
   is an entry of B's catalog. *)
C3_BrandColorsOnly ==
  RunsBrandSpecific =>
    \A i \in Solved : \A k \in 1..Len(paint_mixes[i].base_colors) :
      \E j \in 1..Len(get_brand_colors(user_brand.text)) :
        get_brand_colors(user_brand.text)[j] = paint_mixes[i].base_colors[k]

(* C4, as claimed: for a target equal to a catalog entry, _k_nearest_mix
   hands back that entry alone, with ratio 1.0, and no note. *)
C4_ExactMatchAlone ==
  RunsKNearest =>
    \A i \in Solved :
      IsCatalogColor(target_colors[i]) =>
        /\ Len(paint_mixes[i].base_colors) = 1
        /\ paint_mixes[i].base_colors[1].rgb = target_colors[i]
        /\ paint_mixes[i].mixing_ratios = <<RatioScale>>
        /\ paint_mixes[i].missing_paints = <<>>

(* C4, amended: for a target equal to a catalog entry, _k_nearest_mix hands
   back the three nearest entries: that entry first, with a ratio within 1e-5
   of 1.0, then the next two with ratios of at most 1e-5 each; the recipe
   carries no note and its mix is within the achievable distance. *)
C4_ExactMatchDominates ==
  RunsKNearest =>
    \A i \in Solved :
      IsCatalogColor(target_colors[i]) =>
        LET mix == paint_mixes[i]
        IN /\ Len(mix.base_colors) = 3
           /\ mix.base_colors[1].rgb = target_colors[i]
           /\ RatioScale - mix.mixing_ratios[1] <= RatioScale \div 100000
           /\ \A k \in 2..3 : mix.mixing_ratios[k] <= RatioScale \div 100000
           /\ mix.missing_paints = <<>>
           /\ can_achieve_target(target_colors[i], mix.base_colors, mix.mixing_ratios)

C4_Witness ==
  /\ pc = "done"
  /\ algorithm = "k_nearest"
  /\ \E i \in 1..Len(returned) :
       /\ target_colors[i] = <<0, 71, 171>>
       /\ returned[i].base_colors[1].name = "Cobalt Blue"
       /\ returned[i].mixing_ratios[1] < RatioScale

(* C5: for a non-empty list of targets, any algorithm name and a brand that
   is None or registered, generate_mixing_ratios raises nothing and returns
   a recipe per target. *)
C5_NeverRaises ==
  (~user_brand.present \/ IsRegisteredBrand(user_brand.text)) =>
    /\ pc # "raised"
    /\ pc = "done" => Len(returned) = Len(target_colors)

(* C6: in _linear_combination_mix, whenever lstsq cannot solve the system or
   no solved ratio is positive, the recipe is exactly the one _k_nearest_mix
   gives for the same target, and nothing is raised. *)
C6_LinearFallsBackToKNearest ==
  algorithm = "linear_combination" =>
    /\ pc # "raised"
    /\ \A i \in Solved :
         LET sol == Lstsq(PaintMatrix(BasePaints), target_colors[i])
         IN (sol.raised \/ \A j \in 1..Len(sol.x) : sol.x[j] <= 0)
              => paint_mixes[i] = k_nearest_mix(target_colors[i])

C6_Witness ==
  /\ pc = "done"
  /\ algorithm = "linear_combination"
  /\ log = <<"linear_combination", "LinAlgError", "k_nearest">>
  /\ returned # <<>>

(* C7: _linear_combination_mix solves a system with one equation per rgb
   channel and one unknown per catalog entry (the entries' rgb vectors are
   the columns, the target the right-hand side), and its recipe comes from
   that solution. *)
C7_LeastSquaresOverCatalog ==
  (algorithm = "linear_combination" /\ paint_mixes # <<>>) =>
    /\ Len(PaintMatrix(BasePaints)) = 3
    /\ Len(PaintMatrix(BasePaints)[1]) = Len(BasePaints)
    /\ log = <<"linear_combination", "lstsq">>

(* C8: the mix of the recipe _optimization_mix hands back is no farther from
   the target than the mix of the _k_nearest_mix recipe for that target
   (compared to 0.03, the resolution of the mixed color). *)
C8_OptimizationNoWorse ==
  algorithm = "optimization" =>
    \A i \in Solved :
      MixDistance(paint_mixes[i]) <= MixDistance(k_nearest_mix(target_colors[i])) + 3

C10_DifficultyByCount ==
  result # "none" =>
    /\ Len(arg) \in {1, 2} => result = "easy"
    /\ Len(arg) = 3 => result = "medium"
    /\ Len(arg) > 3 => result = "hard"

C10_Witness ==
  /\ result = "hard"
  /\ Len(arg) = 4

---------------------------------------------------------------------------
(* cost_per_unit of a paint as the catalogs record it, in cents per ml; the
   entries of _load_base_paints carry no cost data *)
CostPerUnitCents(paint) ==
  CASE paint.brand = "Northhaven" ->
         ( CASE paint.name = "Titanium White" -> 4
             [] paint.name = "Burnt Sienna" -> 5
             [] paint.name = "Ultramarine Blue" -> 6
             [] OTHER -> 7 )
    [] paint.brand = "Liquitex" ->
         ( CASE paint.name = "Titanium White" -> 8
             [] paint.name = "Phthalo Blue" -> 12
             [] OTHER -> 15 )
    [] paint.brand = "Golden" ->
         ( CASE paint.name = "Titanium White" -> 18
             [] paint.name = "Cobalt Blue" -> 25
             [] OTHER -> 22 )
    [] OTHER -> 0

(* C11: the estimated cost of a recipe is the sum over its components of
   ratio * 100 * the paint's cost_per_unit in the catalog (0 without cost
   data), to the cent. *)
C11_CostFromCatalog ==
  \A i \in Solved :
    LET mix == paint_mixes[i]
        catalog_cost ==
          ( SumSeq([k \in 1..Len(mix.mixing_ratios) |->
                      MulDiv(mix.mixing_ratios[k],
                             2 * BatchVolume * CostPerUnitCents(mix.base_colors[k]),
                             RatioScale)]) + 1 ) \div 2
    IN Abs(mix.estimated_cost - catalog_cost) <= 1

---------------------------------------------------------------------------
(* Color conversions of ColorAnalyzer.  An hsl triple is held in hundredths
   (hue in 0.01 degree, saturation and lightness in 0.01 percent), a cmyk
   quadruple in hundredths of a percent: the program rounds them to two
   decimals.  rgb channels are integers. *)

Hundredths == 100

(* round(a / b, to the nearest integer), for a >= 0 and b > 0; where a / b is
   exactly half way the float computation may land on either side: up says
   which.  The conversions take one such flag per component they produce. *)
RoundDiv(a, b, up) ==
  LET q == a \div b
      twice == 2 * (a % b)
  IN IF twice > b \/ (twice = b /\ up) THEN q + 1 ELSE q

(* colorsys.rgb_to_hls on r/255, g/255, b/255, then
   [round(h * 360, 2), round(s * 100, 2), round(l * 100, 2)] *)
rgb_to_hsl(rgb, ups) ==
  LET maxc == Max(rgb[1], Max(rgb[2], rgb[3]))
      minc == Min(rgb[1], Min(rgb[2], rgb[3]))
      sumc == maxc + minc
      rangec == maxc - minc
      l == RoundDiv(100 * Hundredths * sumc, 2 * 255, ups[3])
      s == IF sumc <= 255
             THEN RoundDiv(100 * Hundredths * rangec, sumc, ups[2])
             ELSE RoundDiv(100 * Hundredths * rangec, 2 * 255 - sumc, ups[2])
      \* h * rangec, before "(h / 6.0) % 1.0"
      sextant == IF rgb[1] = maxc THEN rgb[2] - rgb[3]
                 ELSE IF rgb[2] = maxc THEN 2 * rangec + rgb[3] - rgb[1]
                 ELSE 4 * rangec + rgb[1] - rgb[2]
      h == RoundDiv(60 * Hundredths * (sextant % (6 * rangec)), rangec, ups[1])
  IN IF minc = maxc THEN <<0, 0, l>> ELSE <<h, s, l>>

(* _v(m1, m2, hue) of colorsys, m1 and m2 in units of 1e-8, hue in
   hundredths of a degree *)
HlsV(m1, m2, hue) ==
  LET hh == hue % (360 * Hundredths)
  IN IF hh < 60 * Hundredths
       THEN m1 + MulDiv(m2 - m1, hh, 60 * Hundredths)
     ELSE IF hh < 180 * Hundredths THEN m2
     ELSE IF hh < 240 * Hundredths
       THEN m1 + MulDiv(m2 - m1, 240 * Hundredths - hh, 60 * Hundredths)
     ELSE m1

(* int(v * 255) for v in units of 1e-8: where v * 255 is an integer up to
   the resolution of v, the float product may lie on either side of it, and
   int() then gives that integer or the one below; up says which *)
Trunc255(v, up) ==
  LET unit == (100 * Hundredths) * (100 * Hundredths)
      qr == MulDivQR[v, 255, unit]
  IN IF qr[2] < 255 /\ qr[1] > 0 THEN (IF up THEN qr[1] ELSE qr[1] - 1)
     ELSE IF qr[2] > unit - 255 THEN (IF up THEN qr[1] + 1 ELSE qr[1])
     ELSE qr[1]

(* colorsys.hls_to_rgb(h, l, s) followed by int(x * 255) per channel; h in
   hundredths of a degree, l and s in hundredths of a percent *)
HlsToRgb(h, l, s, ups) ==
  LET one == 100 * Hundredths
      m2 == IF 2 * l <= one THEN l * (one + s) ELSE l * one + s * one - l * s
      m1 == 2 * l * one - m2
  IN IF s = 0
       THEN [c \in 1..3 |-> IF l = one THEN 255 ELSE Trunc255(l * one, ups[c])]
       ELSE << Trunc255(HlsV(m1, m2, h + 120 * Hundredths), ups[1]),
               Trunc255(HlsV(m1, m2, h), ups[2]),
               Trunc255(HlsV(m1, m2, h + 240 * Hundredths), ups[3]) >>

HslToRgbSwapped(hsl, ups) == HlsToRgb(hsl[1], hsl[2], hsl[3], ups)

(* ColorAnalyzer._hsl_to_rgb: h, s, l = hsl; colorsys.hls_to_rgb(h, l, s) *)
hsl_to_rgb(hsl, ups) == HlsToRgb(hsl[1], hsl[3], hsl[2], ups)

(* c, m, y, k of _rgb_to_cmyk for a color with a non-zero channel *)
CmykOf(rgb, ups) ==
  LET maxc == Max(rgb[1], Max(rgb[2], rgb[3]))
  IN << RoundDiv(100 * Hundredths * (maxc - rgb[1]), maxc, ups[1]),
        RoundDiv(100 * Hundredths * (maxc - rgb[2]), maxc, ups[2]),
        RoundDiv(100 * Hundredths * (maxc - rgb[3]), maxc, ups[3]),
        RoundDiv(100 * Hundredths * (255 - maxc), 255, ups[4]) >>

CmykNoBlackCase(rgb, ups) ==
  IF rgb = <<0, 0, 0>> THEN [raised |-> TRUE, cmyk |-> <<>>]
  ELSE [raised |-> FALSE, cmyk |-> CmykOf(rgb, ups)]

(* ColorAnalyzer._rgb_to_cmyk: k = 1 - max(r, g, b); c = m = y = 0 if k == 1,
   else (1 - x - k) / (1 - k) for each channel x; all times 100, rounded to
   two decimals.  raised stands for a ZeroDivisionError. *)
rgb_to_cmyk(rgb, ups) ==
  IF rgb = <<0, 0, 0>>
    THEN [raised |-> FALSE, cmyk |-> <<0, 0, 0, 100 * Hundredths>>]
    ELSE [raised |-> FALSE, cmyk |-> CmykOf(rgb, ups)]

---------------------------------------------------------------------------
(* The conversions applied on their own to rgb triples *)

ChannelSamples == {0, 2, 3, 51, 85, 160, 255}

RgbSamples == ChannelSamples \X ChannelSamples \X ChannelSamples

(* one rounding flag per component of a conversion's result *)
RoundingFlags == [1..4 -> BOOLEAN]

InitCodec ==
  /\ MixerIdle
  /\ ExtractorIdle
  /\ SharingIdle
  /\ arg \in [rgb : RgbSamples, ups : RoundingFlags]
  /\ result = [done |-> FALSE]

ApplyCodec ==
  /\ ~result.done
  /\ result' = [done |-> TRUE,
                hsl |-> rgb_to_hsl(arg.rgb, arg.ups),
                back |-> hsl_to_rgb(rgb_to_hsl(arg.rgb, arg.ups), arg.ups),
                cmyk |-> rgb_to_cmyk(arg.rgb, arg.ups)]
  /\ UNCHANGED <<arg, mixer_vars, extractor_vars, sharing_vars>>

NextCodec == ApplyCodec

SpecCodec == InitCodec /\ [][NextCodec]_vars

(* C17: _rgb_to_cmyk never divides by zero; black gives (0,0,0,100), white
   gives (0,0,0,0), and for every rgb with channels in 0..255 the four
   values lie in [0,100]. *)
C17_CmykTotal ==
  result.done =>
    /\ ~result.cmyk.raised
    /\ arg.rgb = <<0, 0, 0>> => result.cmyk.cmyk = <<0, 0, 0, 100 * Hundredths>>
    /\ arg.rgb = <<255, 255, 255>> => result.cmyk.cmyk = <<0, 0, 0, 0>>
    /\ \A c \in 1..4 : result.cmyk.cmyk[c] \in 0..(100 * Hundredths)

C17_Witness ==
  /\ result.done
  /\ arg.rgb = <<0, 0, 0>>
  /\ result.cmyk.cmyk[4] = 100 * Hundredths

(* C18: for every rgb triple with channels in 0..255,
   _hsl_to_rgb(_rgb_to_hsl(rgb)) differs from rgb by at most 1 in each
   channel. *)
C18_HslRoundTrip ==
  result.done => \A c \in 1..3 : Abs(result.back[c] - arg.rgb[c]) <= 1

C18_Witness ==
  /\ result.done
  /\ arg.rgb = <<0, 0, 2>>
  /\ result.hsl = <<240 * Hundredths, 100 * Hundredths, 39>>
  /\ result.back = <<0, 0, 1>>

---------------------------------------------------------------------------
(* The harmony generators of ColorAnalyzer.  A Color is held as
   [rgb, hsl, cmyk, name, confidence, tier], confidence in units of
   1/RatioScale; hex is a rendering of rgb and is not held. *)

HueNoWrap(h, offset) == h + offset * Hundredths

(* (h + offset) % 360 *)
ShiftHue(h, offset) == (h + offset * Hundredths) % (360 * Hundredths)

(* Color(rgb=self._hsl_to_rgb([new_h, s, l]), hsl=[new_h, s, l],
         cmyk=self._rgb_to_cmyk(rgb), name=..., confidence=..., tier=...) *)
DerivedColor(color, new_h, label, tenths, tier, ups) ==
  LET new_rgb == hsl_to_rgb(<<new_h, color.hsl[2], color.hsl[3]>>, ups)
  IN [ rgb |-> new_rgb,
       hsl |-> <<new_h, color.hsl[2], color.hsl[3]>>,
       cmyk |-> rgb_to_cmyk(new_rgb, ups).cmyk,
       name |-> <<label, color.name>>,
       confidence |-> (tenths * RatioScale) \div 10,
       tier |-> tier ]

(* ColorAnalyzer._get_complementary_color *)
get_complementary_color(color, ups) ==
  DerivedColor(color, ShiftHue(color.hsl[1], 180), "Complementary to", 9, "tertiary", ups)

(* ColorAnalyzer._get_analogous_colors with num_colors = 3: offset = (i - 1) * 30 *)
get_analogous_colors(color, ups) ==
  [i \in 1..3 |->
     DerivedColor(color, ShiftHue(color.hsl[1], (i - 2) * 30), "Analogous", 8, "secondary", ups)]

(* ColorAnalyzer._get_triadic_colors: (h + (i + 1) * 120) % 360 for i in range(2) *)
get_triadic_colors(color, ups) ==
  [i \in 1..2 |->
     DerivedColor(color, ShiftHue(color.hsl[1], i * 120), "Triadic", 8, "tertiary", ups)]

(* ColorAnalyzer._get_split_complementary_colors: offsets -30 and +30 from
   complementary_h = (h + 180) % 360 *)
get_split_complementary_colors(color, ups) ==
  [i \in 1..2 |->
     DerivedColor(color, ShiftHue(ShiftHue(color.hsl[1], 180), IF i = 1 THEN -30 ELSE 30),
                  "Split complementary", 7, "tertiary", ups)]

(* seed colors: hues at and around the wrap points of the offsets *)
SeedHues == {0, 1, 2999, 3000, 15000, 18000, 21000, 33000, 35999}
SeedLevels == {0, 5000, 10000}

Seeds ==
  { [hsl |-> <<h, s, l>>, name |-> "Seed"] : h \in SeedHues, s \in SeedLevels, l \in SeedLevels }

InitHarmony ==
  /\ MixerIdle
  /\ ExtractorIdle
  /\ SharingIdle
  /\ arg \in [color : Seeds, ups : RoundingFlags]
  /\ result = [done |-> FALSE]

(* the four generators on one seed, as get_color_theory and
   generate_harmonious_palette call them *)
ApplyHarmony ==
  /\ ~result.done
  /\ result' = [done |-> TRUE,
                complementary |-> get_complementary_color(arg.color, arg.ups),
                analogous |-> get_analogous_colors(arg.color, arg.ups),
                triadic |-> get_triadic_colors(arg.color, arg.ups),
                split_complementary |-> get_split_complementary_colors(arg.color, arg.ups)]
  /\ UNCHANGED <<arg, mixer_vars, extractor_vars, sharing_vars>>

NextHarmony == ApplyHarmony

SpecHarmony == InitHarmony /\ [][NextHarmony]_vars

(* C16: every derived color keeps the seed's saturation and lightness and
   has hue (h + o) mod 360, o being 180 for complementary, -30, 0, +30 for
   analogous, 120, 240 for triadic and 150, 210 for split-complementary; the
   complementary of hue 0 has hue 180. *)
C16_HarmonyOffsets ==
  result.done =>
    LET h == arg.color.hsl[1]
        s == arg.color.hsl[2]
        l == arg.color.hsl[3]
        at(o) == <<(h + o * 100) % 36000, s, l>>
    IN /\ result.complementary.hsl = at(180)
       /\ [i \in 1..3 |-> result.analogous[i].hsl] = <<at(-30), at(0), at(30)>>
       /\ [i \in 1..2 |-> result.triadic[i].hsl] = <<at(120), at(240)>>
       /\ [i \in 1..2 |-> result.split_complementary[i].hsl] = <<at(150), at(210)>>
       /\ h = 0 => result.complementary.hsl[1] = 18000

C16_Witness ==
  /\ result.done
  /\ arg.color.hsl = <<33000, 5000, 5000>>
  /\ result.complementary.hsl[1] = 15000
  /\ result.split_complementary[2].hsl[1] = 18000

---------------------------------------------------------------------------
(* ColorAnalyzer.extract_dominant_colors.  The clustering is sklearn's
   KMeans(n_clusters=num_colors, random_state=42, n_init=10): n_init runs of
   k-means++ seeding and Lloyd iterations from one seeded generator, the run
   of least inertia kept.  The generator is a small congruential one: which
   numbers it yields stands for the library's generator, that they are a
   function of the seed alone is what the model keeps.  The seeding draws one
   candidate per center.  Centers are held in units of 1/CenterScale. *)

MaxCalls == 2
MaxAmbient == 2
CenterScale == 100
RandomState == 42
NInit == 10
MaxIter == 300
TierSize == 5

(* the generator: its next state, from which a draw is taken *)
NextRandom(s) == (s * 75 + 74) % 65537

KMeansSeedAmbient(amb) == 1000 + amb

(* random_state=42: the seed of the generator KMeans draws from *)
KMeansSeed(amb) == RandomState

(* cv2.cvtColor(image, cv2.COLOR_BGR2RGB); image_rgb.reshape(-1, 3) *)
Pixels == [i \in 1..Len(image) |-> <<image[i][3], image[i][2], image[i][1]>>]

(* squared distance between two pixels *)
PixelDistSq(x, y) == DistSq(x, y)

(* squared distance of a pixel to a center, in 1/CenterScale^2 *)
CenterDistSq(x, c) == DistSq([ch \in 1..3 |-> x[ch] * CenterScale], c)

(* np.searchsorted(cumsum(closest), r): the first index whose running sum
   exceeds r, clipped to the last *)
RECURSIVE FirstOver(_, _, _, _)
FirstOver(cl, r, i, acc) ==
  IF i >= Len(cl) THEN Len(cl)
  ELSE IF acc + cl[i] > r THEN i
  ELSE FirstOver(cl, r, i + 1, acc + cl[i])

(* _kmeans_plusplus, one center: the first uniformly among the samples, the
   others with probability proportional to the squared distance to the
   closest center already chosen *)
PickCenter(km) ==
  LET px == Pixels
      n == Len(px)
      r == NextRandom(km.rng)
      pot == SumSeq(km.closest)
      id == IF km.centers = <<>> THEN (r % n) + 1
            ELSE IF pot = 0 THEN 1
            ELSE FirstOver(km.closest, MulDiv(r, pot, 65537), 1, 0)
  IN [km EXCEPT
        !.rng = r,
        !.centers = Append(km.centers, [ch \in 1..3 |-> px[id][ch] * CenterScale]),
        !.closest = [i \in 1..n |->
                       IF km.centers = <<>> THEN PixelDistSq(px[i], px[id])
                       ELSE Min(km.closest[i], PixelDistSq(px[i], px[id]))]]

(* the E-step: the index (from 0) of the nearest center, the lowest on ties *)
NearestCenter(x, centers) ==
  CHOOSE j \in 0..(Len(centers) - 1) :
    \A m \in 0..(Len(centers) - 1) :
      \/ CenterDistSq(x, centers[j + 1]) < CenterDistSq(x, centers[m + 1])
      \/ (CenterDistSq(x, centers[j + 1]) = CenterDistSq(x, centers[m + 1]) /\ j <= m)

AssignLabels(centers) == [i \in 1..Len(image) |-> NearestCenter(Pixels[i], centers)]

Members(labels, j) == {i \in 1..Len(labels) : labels[i] = j}

RECURSIVE SumOver(_, _, _)
SumOver(px, members, ch) ==
  IF members = {} THEN 0
  ELSE LET i == CHOOSE m \in members : TRUE
       IN px[i][ch] + SumOver(px, members \ {i}, ch)

(* tol of KMeans: 1e-4 times the mean of the per-channel variances, in
   1/CenterScale^2 *)
Tolerance ==
  LET px == Pixels
      n == Len(px)
      all == 1..n
      spread(ch) == n * SumSeq([i \in 1..n |-> px[i][ch] * px[i][ch]])
                      - SumOver(px, all, ch) * SumOver(px, all, ch)
  IN (((spread(1) + spread(2) + spread(3)) \div (3 * n * n)) * CenterScale * CenterScale)
       \div 10000

(* the samples _relocate_empty_clusters moves: as many as there are empty
   clusters, the farthest from their own centers first (the later of two
   equally far) *)
FarRank(labels, centers, i) ==
  LET d(m) == CenterDistSq(Pixels[m], centers[labels[m] + 1])
  IN Cardinality({m \in 1..Len(labels) : d(m) > d(i) \/ (d(m) = d(i) /\ m > i)})

EmptyClusters(labels, k) == {j \in 0..(k - 1) : Members(labels, j) = {}}

(* the members a center is averaged over: an empty cluster takes the sample
   moved to it, the others lose the samples moved away *)
MembersAfterRelocation(labels, centers, j) ==
  LET empty == EmptyClusters(labels, Len(centers))
      moved == {i \in 1..Len(labels) : FarRank(labels, centers, i) < Cardinality(empty)}
  IN IF j \in empty
       THEN {i \in moved :
               FarRank(labels, centers, i) = Cardinality({e \in empty : e < j})}
       ELSE Members(labels, j) \ moved

(* the M-step: each center becomes the mean of its members *)
UpdateCenters(labels, centers) ==
  [j \in 1..Len(centers) |->
     LET members == MembersAfterRelocation(labels, centers, j - 1)
     IN [ch \in 1..3 |->
           IF members = {} THEN 0
           ELSE (SumOver(Pixels, members, ch) * CenterScale) \div Cardinality(members)]]

(* center_shift_tot <= tol *)
WithinTolerance(centers, new_centers) ==
  SumSeq([j \in 1..Len(centers) |->
            Min(DistSq(centers[j], new_centers[j]), Tolerance + 1)]) <= Tolerance

(* _inertia, in 1/CenterScale *)
Inertia(labels, centers) ==
  SumSeq([i \in 1..Len(labels) |->
            CenterDistSq(Pixels[i], centers[labels[i] + 1]) \div CenterScale])
(* self.color_names, in insertion order *)
ColorNames ==
  << [name |-> "Red",     rgb |-> <<255, 0, 0>>],
     [name |-> "Green",   rgb |-> <<0, 255, 0>>],
     [name |-> "Blue",    rgb |-> <<0, 0, 255>>],
     [name |-> "Yellow",  rgb |-> <<255, 255, 0>>],
     [name |-> "Cyan",    rgb |-> <<0, 255, 255>>],
     [name |-> "Magenta", rgb |-> <<255, 0, 255>>],
     [name |-> "White",   rgb |-> <<255, 255, 255>>],
     [name |-> "Black",   rgb |-> <<0, 0, 0>>],
     [name |-> "Gray",    rgb |-> <<128, 128, 128>>],
     [name |-> "Orange",  rgb |-> <<255, 165, 0>>],
     [name |-> "Purple",  rgb |-> <<128, 0, 128>>],
     [name |-> "Pink",    rgb |-> <<255, 192, 203>>],
     [name |-> "Brown",   rgb |-> <<165, 42, 42>>],
     [name |-> "Teal",    rgb |-> <<0, 128, 128>>],
     [name |-> "Navy",    rgb |-> <<0, 0, 128>>],
     [name |-> "Lime",    rgb |-> <<0, 255, 0>>],
     [name |-> "Maroon",  rgb |-> <<128, 0, 0>>],
     [name |-> "Olive",   rgb |-> <<128, 128, 0>>] >>

(* ColorAnalyzer._find_closest_color_name: the first name at the least distance *)
find_closest_color_name(rgb) ==
  LET best == CHOOSE j \in 1..Len(ColorNames) :
                \A m \in 1..Len(ColorNames) :
                  \/ DistSq(rgb, ColorNames[j].rgb) < DistSq(rgb, ColorNames[m].rgb)
                  \/ (DistSq(rgb, ColorNames[j].rgb) = DistSq(rgb, ColorNames[m].rgb) /\ j <= m)
  IN ColorNames[best].name

(* np.bincount(kmeans.labels_) *)
ClusterSizes(labels) ==
  LET top == CHOOSE j \in 0..Len(labels) :
               /\ \A i \in 1..Len(labels) : labels[i] <= j
               /\ \E i \in 1..Len(labels) : labels[i] = j
  IN [j \in 1..(top + 1) |-> Cardinality(Members(labels, j - 1))]

(* the Color built for cluster i (from 1) in the loop over dominant_colors *)
ClusterColor(centers, sizes, i, ups) ==
  LET color_rgb == [ch \in 1..3 |-> centers[i][ch] \div CenterScale]
  IN [ rgb |-> color_rgb,
       hsl |-> rgb_to_hsl(color_rgb, ups),
       cmyk |-> rgb_to_cmyk(color_rgb, ups).cmyk,
       name |-> <<find_closest_color_name(color_rgb)>>,
       confidence |-> MulDiv(sizes[i], RatioScale, Len(image)),
       tier |-> "dominant" ]

SortByClusterIndex(colors) == colors

(* colors.sort(key=lambda x: x.confidence, reverse=True): descending, equal
   confidences in their order before the sort *)
SortByConfidence(colors) ==
  LET before(i, j) == \/ colors[i].confidence > colors[j].confidence
                      \/ (colors[i].confidence = colors[j].confidence /\ i < j)
      at(r) == CHOOSE i \in 1..Len(colors) :
                 Cardinality({j \in 1..Len(colors) : before(j, i)}) = r - 1
  IN [r \in 1..Len(colors) |-> colors[at(r)]]

(* colors[lo:hi] with color.tier = tier for each *)
Tier(colors, lo, hi, tier) ==
  [r \in 1..(Min(hi, Len(colors)) - Min(lo, Len(colors))) |->
     [colors[Min(lo, Len(colors)) + r] EXCEPT !.tier = tier]]

(* the dict extract_dominant_colors returns *)
Tiers(colors) ==
  LET dominant == Tier(colors, 0, TierSize, "dominant")
      secondary == Tier(colors, TierSize, 2 * TierSize, "secondary")
      tertiary == Tier(colors, 2 * TierSize, 3 * TierSize, "tertiary")
  IN [ dominant_colors |-> dominant,
       secondary_colors |-> secondary,
       tertiary_colors |-> tertiary,
       color_distribution |-> [dominant |-> Len(dominant), secondary |-> Len(secondary),
                               tertiary |-> Len(tertiary)] ]
(* Inputs: BGR images as flattened pixel sequences *)
SolidImage == [i \in 1..4 |-> <<255, 255, 255>>]

TwoPixelImage == << <<0, 0, 255>>, <<255, 0, 0>> >>

(* the same two pixels in the other order *)
TwoPixelImageSwapped == << <<255, 0, 0>>, <<0, 0, 255>> >>

(* five pixels of three colors *)
ThreeColorImage ==
  << <<10, 20, 30>>, <<10, 20, 30>>, <<200, 100, 0>>, <<10, 20, 30>>, <<0, 0, 250>> >>

(* seventeen pixels of sixteen colors *)
SixteenColorImage ==
  << <<0, 0, 0>>, <<255, 255, 255>>, <<0, 0, 255>>, <<0, 255, 0>>, <<255, 0, 0>>,
     <<0, 255, 255>>, <<255, 0, 255>>, <<255, 255, 0>>, <<128, 128, 128>>,
     <<0, 0, 128>>, <<0, 128, 0>>, <<128, 0, 0>>, <<0, 128, 255>>, <<255, 128, 0>>,
     <<64, 192, 32>>, <<200, 40, 90>>, <<0, 0, 0>> >>

Images ==
  {<<>>, SolidImage, TwoPixelImage, TwoPixelImageSwapped, ThreeColorImage, SixteenColorImage}

NumColors == {2, 3, 6, 15, 16}

(* the rounding flags of the conversions, all down or all up *)
UniformFlags == {f \in RoundingFlags : \A c \in 1..4 : f[c] = f[1]}

InitExtract ==
  /\ MixerIdle
  /\ SharingIdle
  /\ arg \in [ups : UniformFlags]
  /\ result = "none"
  /\ image \in Images
  /\ num_colors \in NumColors
  /\ ambient \in {0, 1}
  /\ calls = 0
  /\ epc = "idle"
  /\ kmeans = KMeansIdle
  /\ extracted = NothingExtracted
  /\ outcomes = <<>>

BetweenCalls == epc \in {"idle", "done", "raised"}

ExtractReturnsNothing(cause) ==
  /\ epc' = "done"
  /\ kmeans' = KMeansIdle
  /\ extracted' = NothingExtracted
  /\ outcomes' = Append(outcomes, [raised |-> FALSE, cause |-> cause, tiers |-> NothingExtracted])

(* except Exception as e: raise Exception(f"Failed to extract colors: {str(e)}") *)
ExtractRaise(cause) ==
  /\ epc' = "raised"
  /\ kmeans' = KMeansIdle
  /\ extracted' = NothingExtracted
  /\ outcomes' = Append(outcomes, [raised |-> TRUE, cause |-> cause, tiers |-> NothingExtracted])

(* other code of the process draws from the process-wide generator
   (np.random.choice in extract_color_samples) *)
DrawAmbient ==
  /\ BetweenCalls
  /\ ambient < MaxAmbient
  /\ ambient' = ambient + 1
  /\ UNCHANGED <<image, num_colors, calls, epc, kmeans, extracted, outcomes, mixer_vars, helper_vars, sharing_vars>>

(* a caller invokes extract_dominant_colors(image, num_colors): cvtColor
   fails on an empty image, KMeans.fit on fewer samples than clusters *)
ExtractStart ==
  /\ BetweenCalls
  /\ calls < MaxCalls
  /\ calls' = calls + 1
  /\ IF image = <<>> THEN ExtractRaise("cv2.error")
     ELSE IF num_colors < 1 \/ Len(image) < num_colors THEN ExtractRaise("ValueError")
     ELSE /\ epc' = "seeding"
          /\ kmeans' = [KMeansIdle EXCEPT !.rng = KMeansSeed(ambient), !.run = 1]
          /\ extracted' = NothingExtracted
          /\ UNCHANGED outcomes
  /\ UNCHANGED <<image, num_colors, ambient, mixer_vars, helper_vars, sharing_vars>>

(* KMeans.fit, seeding: one more center of the current run *)
Seeding ==
  /\ epc = "seeding"
  /\ kmeans' = PickCenter(kmeans)
  /\ epc' = IF Len(kmeans.centers) + 1 = num_colors THEN "estep" ELSE "seeding"
  /\ UNCHANGED <<image, num_colors, ambient, calls, extracted, outcomes, mixer_vars, helper_vars, sharing_vars>>

(* KMeans.fit, lloyd_iter: the labels for the current centers *)
EStep ==
  /\ epc = "estep"
  /\ kmeans' = [kmeans EXCEPT !.labels = AssignLabels(kmeans.centers)]
  /\ epc' = "mstep"
  /\ UNCHANGED <<image, num_colors, ambient, calls, extracted, outcomes, mixer_vars, helper_vars, sharing_vars>>

(* KMeans.fit, lloyd_iter: the new centers, then the convergence tests *)
MStep ==
  /\ epc = "mstep"
  /\ LET new_centers == UpdateCenters(kmeans.labels, kmeans.centers)
         strict == kmeans.labels = kmeans.labels_old
         stop == \/ strict
                 \/ WithinTolerance(kmeans.centers, new_centers)
                 \/ kmeans.iter + 1 >= MaxIter
     IN /\ kmeans' = [kmeans EXCEPT !.centers = new_centers,
                                    !.iter = kmeans.iter + 1,
                                    !.strict = strict,
                                    !.labels_old = kmeans.labels]
        /\ epc' = IF stop THEN "run_end" ELSE "estep"
  /\ UNCHANGED <<image, num_colors, ambient, calls, extracted, outcomes, mixer_vars, helper_vars, sharing_vars>>

(* KMeans.fit, end of a run: labels made consistent with the centers, the
   run kept if its inertia is the least so far, then the next run *)
RunEnd ==
  /\ epc = "run_end"
  /\ LET labels == IF kmeans.strict THEN kmeans.labels ELSE AssignLabels(kmeans.centers)
         inertia == Inertia(labels, kmeans.centers)
         best == IF kmeans.best.inertia < 0 \/ inertia < kmeans.best.inertia
                   THEN [inertia |-> inertia, centers |-> kmeans.centers, labels |-> labels]
                   ELSE kmeans.best
     IN kmeans' = [KMeansIdle EXCEPT !.rng = kmeans.rng,
                                     !.run = IF kmeans.run < NInit THEN kmeans.run + 1
                                             ELSE kmeans.run,
                                     !.best = best]
  /\ epc' = IF kmeans.run < NInit THEN "seeding" ELSE "colors"
  /\ UNCHANGED <<image, num_colors, ambient, calls, extracted, outcomes, mixer_vars, helper_vars, sharing_vars>>

(* the rest of extract_dominant_colors: a Color per cluster center
   (cluster_sizes[i] raises IndexError past the last populated cluster), the
   sort, the tiers *)
BuildColors ==
  /\ epc = "colors"
  /\ LET sizes == ClusterSizes(kmeans.best.labels)
         colors == [i \in 1..num_colors |->
                      ClusterColor(kmeans.best.centers, sizes, i, arg.ups)]
     IN IF Len(sizes) < num_colors THEN ExtractRaise("IndexError")
        ELSE /\ epc' = "done"
             /\ extracted' = Tiers(SortByConfidence(colors))
             /\ outcomes' = Append(outcomes, [raised |-> FALSE, cause |-> "",
                                              tiers |-> Tiers(SortByConfidence(colors))])
             /\ kmeans' = KMeansIdle
  /\ UNCHANGED <<image, num_colors, ambient, calls, mixer_vars, helper_vars, sharing_vars>>

NextExtract ==
  \/ DrawAmbient
  \/ ExtractStart
  \/ Seeding
  \/ EStep
  \/ MStep
  \/ RunEnd
  \/ BuildColors

SpecExtract == InitExtract /\ [][NextExtract]_vars

---------------------------------------------------------------------------
(* the colors one call returned, dominant first *)
ReturnedColors(tiers) ==
  tiers.dominant_colors \o tiers.secondary_colors \o tiers.tertiary_colors

(* C12: two calls of extract_dominant_colors with identical pixels and
   num_colors have identical outcomes (colors, order, tiers, confidences),
   and the clustering starts from the fixed seed whatever the state of the
   process-wide generator. *)
C12_ExtractorDeterminism ==
  /\ \A i, j \in 1..Len(outcomes) : outcomes[i] = outcomes[j]
  /\ (epc = "seeding" /\ kmeans.run = 1 /\ kmeans.centers = <<>>) => kmeans.rng = RandomState

C12_Witness ==
  /\ Len(outcomes) = 2
  /\ ambient = 2
  /\ image = SixteenColorImage
  /\ num_colors = 6
  /\ ~outcomes[2].raised
  /\ Len(outcomes[2].tiers.secondary_colors) = 1

(* C13: for every non-empty image and every num_colors, the confidences of
   all colors one call returns sum to 1.0 within 1e-6. *)
C13_ConfidenceConservation ==
  (image # <<>> /\ epc = "done") =>
    LET colors == ReturnedColors(extracted)
    IN Abs(SumSeq([i \in 1..Len(colors) |-> colors[i].confidence]) - RatioScale)
         <= RatioScale \div 1000000

(* C14: each tier holds at most 5 colors, the tiers are consecutive slices of
   the list ranked by descending confidence (a later tier is non-empty only
   when the one before is full), and each color's tier label is that of the
   list holding it. *)
C14_TiersAreRankedSlices ==
  epc = "done" =>
    LET colors == ReturnedColors(extracted)
    IN /\ Len(extracted.dominant_colors) <= 5
       /\ Len(extracted.secondary_colors) <= 5
       /\ Len(extracted.tertiary_colors) <= 5
       /\ Len(colors) = Min(num_colors, 15)
       /\ extracted.secondary_colors # <<>> => Len(extracted.dominant_colors) = 5
       /\ extracted.tertiary_colors # <<>> => Len(extracted.secondary_colors) = 5
       /\ \A i, j \in 1..Len(colors) : i < j => colors[i].confidence >= colors[j].confidence
       /\ \A i \in 1..Len(extracted.dominant_colors) :
            extracted.dominant_colors[i].tier = "dominant"
       /\ \A i \in 1..Len(extracted.secondary_colors) :
            extracted.secondary_colors[i].tier = "secondary"
       /\ \A i \in 1..Len(extracted.tertiary_colors) :
            extracted.tertiary_colors[i].tier = "tertiary"

C14_Witness ==
  /\ epc = "done"
  /\ num_colors = 15
  /\ Len(extracted.tertiary_colors) = 5
  /\ extracted.dominant_colors[1].confidence > extracted.tertiary_colors[5].confidence

(* C15: a call with an empty pixel buffer ends in an error raised to the
   caller and returns no tiers. *)
C15_EmptyImageRaises ==
  image = <<>> =>
    /\ epc \in {"idle", "raised"}
    /\ extracted = NothingExtracted
    /\ \A i \in 1..Len(outcomes) : outcomes[i].raised

C15_Witness ==
  /\ image = <<>>
  /\ epc = "raised"
  /\ calls = 1
  /\ outcomes = <<[raised |-> TRUE, cause |-> "cv2.error", tiers |-> NothingExtracted]>>

---------------------------------------------------------------------------
(* the catalog the inverse-distance strategies of the current call select
   from: the brand's colors when the brand resolves to a non-empty list,
   the generic base paints otherwise *)
SelectionCatalog ==
  IF RunsBrandSpecific /\ get_brand_colors(user_brand.text) # <<>>
  THEN get_brand_colors(user_brand.text)
  ELSE BasePaints

(* C20: a k-nearest or brand-specific recipe holds the min(3, |catalog|)
   catalog entries nearest to the target in RGB, in ascending distance with
   equal distances in catalog insertion order; entry i has the ratio
   (1/(d_i + 1e-6)) / sum_j (1/(d_j + 1e-6)), so ratios never increase
   along the recipe. *)
C20_NearestInverseDistance ==
  (RunsKNearest \/ RunsBrandSpecific) =>
    \A n \in Solved :
      LET mix == paint_mixes[n]
          cat == SelectionCatalog
          t == mix.target_color
          bc == mix.base_colors
          r == mix.mixing_ratios
          at(k) == CHOOSE i \in 1..Len(cat) : cat[i].name = bc[k].name
          d(i) == DistSq(t, cat[i].rgb)
          before(i, j) == d(i) < d(j) \/ (d(i) = d(j) /\ i < j)
          chosen == {at(k) : k \in 1..Len(bc)}
          g(k) == Norm(t, bc[k].rgb) + Eps
          w == [k \in 1..Len(bc) |-> MulDiv(g(1), RatioScale, g(k))]
      IN /\ Len(bc) = Min(3, Len(cat))
         /\ Len(r) = Len(bc)
         /\ \A k \in 1..Len(bc) : \E i \in 1..Len(cat) : cat[i] = bc[k]
         /\ \A k, m \in 1..Len(bc) : k < m => before(at(k), at(m))
         /\ \A i \in (1..Len(cat)) \ chosen : \A j \in chosen : before(j, i)
         /\ \A k \in 1..Len(bc) : Abs(r[k] - MulDiv(w[k], RatioScale, SumSeq(w))) <= 1
         /\ \A k, m \in 1..Len(bc) : k < m => r[k] >= r[m]

C20_Witness ==
  /\ RunsKNearest
  /\ \E n \in Solved :
       /\ paint_mixes[n].target_color = <<0, 50, 80>>
       /\ paint_mixes[n].base_colors[3].name = "Ivory Black"
       /\ DistSq(<<0, 50, 80>>, <<0, 100, 0>>) = DistSq(<<0, 50, 80>>, <<0, 0, 0>>)
       /\ paint_mixes[n].mixing_ratios[1] > paint_mixes[n].mixing_ratios[3]

---------------------------------------------------------------------------
(* What a returned recipe shares with the brand catalog.  A Color's rgb is a
   Python list; the model records for every base color of a recipe whether
   its rgb list is the catalog's own list or one built for the recipe. *)

MaxHeld == 2
MaxWrites == 1

(* the targets of the solves below: white, cobalt blue, and a red *)
SharingTargets == { <<255, 255, 255>>, <<0, 71, 171>>, <<230, 30, 50>> }

(* get_brand_colors: list(self.brands[brand].values()), read as it is now *)
CurrentColors(b) ==
  [i \in 1..Len(Brands[b].colors) |->
     [name |-> Brands[b].colors[i].name, brand |-> Brands[b].colors[i].brand,
      rgb |-> catalog[b][i]]]

SharedRef(b, i) == [shared |-> TRUE, brand |-> b, index |-> i, rgb |-> <<>>]

OwnCopy(rgb) == [shared |-> FALSE, brand |-> 0, index |-> 0, rgb |-> rgb]

(* PaintColor(name=..., brand=..., color=paint_color.color, ...): the
   recipe's color is the catalog's Color, rgb list included *)
BrandColorRef(b, i) == SharedRef(b, i)

(* the rgb list a base color of a held recipe reads *)
Deref(color) == IF color.shared THEN catalog[color.brand][color.index] ELSE color.rgb

(* how many channels have been written since the recipes were returned *)
Written ==
  Cardinality({<<b, i, c>> \in (1..Len(Brands)) \X (1..5) \X (1..3) :
                 i <= Len(Brands[b].colors) /\ catalog[b][i][c] # InitialCatalog[b][i][c]})
  + Cardinality({<<n, k, c>> \in (1..Len(held)) \X (1..3) \X (1..3) :
                 /\ k <= Len(held[n].colors)
                 /\ ~held[n].colors[k].shared
                 /\ \E p \in 1..Len(BasePaints) :
                      /\ BasePaints[p].name = held[n].names[k]
                      /\ BasePaints[p].rgb[c] # held[n].colors[k].rgb[c]})

InitSharing ==
  /\ MixerIdle
  /\ ExtractorIdle
  /\ SharingIdle
  /\ arg = [none |-> TRUE]
  /\ result = "none"

(* _brand_specific_mix(target, brand) for a brand with colors *)
SolveBrand ==
  \E t \in SharingTargets, b \in 1..Len(Brands) :
    LET cat == CurrentColors(b)
        rank(k) == CHOOSE i \in 1..Len(cat) : SortRank(cat, t, i) = k
    IN /\ Len(held) < MaxHeld
       /\ held' = Append(held,
            [ target |-> t, brand |-> b,
              names |-> [k \in 1..Min(3, Len(cat)) |-> cat[rank(k)].name],
              colors |-> [k \in 1..Min(3, Len(cat)) |-> BrandColorRef(b, rank(k))],
              ratios |-> InverseDistanceRatios(cat, t) ])
       /\ UNCHANGED <<catalog, mixer_vars, helper_vars, extractor_vars>>

(* _k_nearest_mix(target): _load_base_paints builds the generic paints anew *)
SolveGeneric ==
  \E t \in SharingTargets :
    LET closest == ClosestPaints(BasePaints, t)
    IN /\ Len(held) < MaxHeld
       /\ held' = Append(held,
            [ target |-> t, brand |-> 0,
              names |-> [k \in 1..Len(closest) |-> closest[k].name],
              colors |-> [k \in 1..Len(closest) |-> OwnCopy(closest[k].rgb)],
              ratios |-> InverseDistanceRatios(BasePaints, t) ])
       /\ UNCHANGED <<catalog, mixer_vars, helper_vars, extractor_vars>>

(* a caller writes 0 into the red channel of the rgb list of a base color
   of a recipe it was handed: recipe.base_colors[k].color.rgb[0] = 0 *)
CallerWrites ==
  \E n \in 1..Len(held), k \in 1..3, c \in {1} :
    /\ k <= Len(held[n].colors)
    /\ Written < MaxWrites
    /\ Deref(held[n].colors[k])[c] # 0
    /\ LET color == held[n].colors[k]
       IN IF color.shared
          THEN /\ catalog' = [catalog EXCEPT ![color.brand][color.index][c] = 0]
               /\ UNCHANGED held
          ELSE /\ held' = [held EXCEPT ![n].colors[k].rgb[c] = 0]
               /\ UNCHANGED catalog
    /\ UNCHANGED <<mixer_vars, helper_vars, extractor_vars>>

NextSharing == SolveBrand \/ SolveGeneric \/ CallerWrites

SpecSharing == InitSharing /\ [][NextSharing]_vars

(* C19: no solve call changes the catalog, nothing reachable from a returned
   recipe is shared with the catalog, and the recipe for a target and brand
   is the same whichever other solves ran before it. *)
C19_CatalogIsolated ==
  /\ [][Len(held') > Len(held) => catalog' = catalog]_vars
  /\ [](\A n \in 1..Len(held) : \A k \in 1..Len(held[n].colors) : ~held[n].colors[k].shared)
  /\ [](\A n, m \in 1..Len(held) :
          (held[n].target = held[m].target /\ held[n].brand = held[m].brand)
            => (held[n].names = held[m].names /\ held[n].ratios = held[m].ratios))

---------------------------------------------------------------------------
(* C21: for every solved target, _optimization_mix evaluates a candidate for
   every combination of 2, 3 and 4 catalog paints (none is skipped by an
   exception), and the mix of the recipe it returns is no farther from the
   target than any such candidate. *)
C21_EverySubsetEvaluated ==
  algorithm = "optimization" =>
    \A i \in Solved :
      \A c \in PaintCombos :
        LET e == EvalCombo(c, target_colors[i])
        IN /\ ~e.raised
           /\ e.candidate =>
                MixDistSq(target_colors[i], paint_mixes[i].base_colors,
                          paint_mixes[i].mixing_ratios) <= e.distance

---------------------------------------------------------------------------
(* The two nested loops of _optimization_mix, one combination per step *)

(* the targets of the stepwise search: Phthalo Green (a catalog color that
   some combinations mix exactly), black (no combination solves) and two
   colors off the catalog *)
OptTargets == { <<0, 100, 0>>, <<0, 0, 0>>, <<64, 0, 64>>, <<230, 30, 50>> }

(* the combination itertools.combinations yields after c, then the first of
   the next size; <<>> after the last combination of the largest size *)
NextCombo(c) ==
  LET k == Len(c)
      n == Len(BasePaints)
      movable == {i \in 1..k : c[i] < n - k + i}
  IN IF movable # {}
     THEN LET i == CHOOSE a \in movable : \A b \in movable : b <= a
          IN [j \in 1..k |-> IF j < i THEN c[j] ELSE c[i] + 1 + (j - i)]
     ELSE IF k + 1 < Min(5, n + 1)
     THEN [j \in 1..(k + 1) |-> j]
     ELSE <<>>

(* best_mix = None; best_distance = float('inf'); the loops about to start *)
SearchStart ==
  [ combo |-> IF 2 < Min(5, Len(BasePaints) + 1) THEN <<1, 2>> ELSE <<>>,
    has_best |-> FALSE, best_combo |-> <<>>, best_ratios |-> <<>>,
    best_distance |-> 0, evaluated |-> 0, done |-> FALSE, recipe |-> <<>> ]

InitOptimize ==
  /\ MixerIdle
  /\ ExtractorIdle
  /\ SharingIdle
  /\ arg \in [target : OptTargets]
  /\ result = SearchStart

(* one pass of the inner loop body *)
EvalNextCombo ==
  /\ ~result.done
  /\ result.combo # <<>>
  /\ LET e == EvalCombo(result.combo, arg.target)
         better == e.candidate /\ (~result.has_best \/ e.distance < result.best_distance)
     IN result' = [result EXCEPT
          !.combo = NextCombo(result.combo),
          !.evaluated = result.evaluated + 1,
          !.has_best = result.has_best \/ better,
          !.best_combo = IF better THEN e.combo ELSE @,
          !.best_ratios = IF better THEN e.ratios ELSE @,
          !.best_distance = IF better THEN e.distance ELSE @]
  /\ UNCHANGED <<arg, mixer_vars, extractor_vars, sharing_vars>>

(* if best_mix: ... return PaintMix(...); else: the k-nearest recipe *)
OptimizeReturn ==
  /\ ~result.done
  /\ result.combo = <<>>
  /\ result' = [result EXCEPT
       !.done = TRUE,
       !.recipe = IF result.has_best
                  THEN PaintMix(arg.target,
                                [i \in 1..Len(result.best_combo) |-> BasePaints[result.best_combo[i]]],
                                result.best_ratios, FALSE, <<>>)
                  ELSE OptimizationFallback(arg.target)]
  /\ UNCHANGED <<arg, mixer_vars, extractor_vars, sharing_vars>>

NextOptimize == EvalNextCombo \/ OptimizeReturn

SpecOptimize == InitOptimize /\ [][NextOptimize]_vars

(* C22: once a candidate at zero distance from the target is recorded as the
   best, no further combination is evaluated before the recipe is returned. *)
C22_StopsAtExactMatch ==
  [][(result.has_best /\ result.best_distance = 0) => result'.evaluated = result.evaluated]_vars

---------------------------------------------------------------------------
(* a before or equal to b in lexicographic (r, g, b) order *)
LexLeq(a, b) ==
  \/ a[1] < b[1]
  \/ a[1] = b[1] /\ a[2] < b[2]
  \/ a[1] = b[1] /\ a[2] = b[2] /\ a[3] <= b[3]

(* C23: the returned colors are in descending confidence, and two colors of
   equal confidence are in lexicographic (r, g, b) order of their centroids,
   whatever cluster index the clustering gave them. *)
C23_TiesLexicographic ==
  epc = "done" =>
    LET colors == ReturnedColors(extracted)
    IN \A i, j \in 1..Len(colors) :
         i < j =>
           /\ colors[i].confidence >= colors[j].confidence
           /\ colors[i].confidence = colors[j].confidence => LexLeq(colors[i].rgb, colors[j].rgb)

(* the number of distinct colors of the image *)
DistinctColors == Cardinality({image[i] : i \in 1..Len(image)})

(* C24: when the image has fewer distinct colors than num_colors, or fewer
   than 15 colors are requested, the call returns without error, returns no
   zero-population and no duplicate color, and the three tiers shrink
   together (their sizes differ by at most one) instead of the dominant tier
   being filled first. *)
C24_FewColorsShrinkTiers ==
  (image # <<>> /\ epc \in {"done", "raised"} /\ (DistinctColors < num_colors \/ num_colors < 15)) =>
    LET colors == ReturnedColors(extracted)
    IN /\ epc = "done"
       /\ Len(colors) <= Min(num_colors, DistinctColors)
       /\ \A i \in 1..Len(colors) : colors[i].confidence > 0
       /\ \A i, j \in 1..Len(colors) : i # j => colors[i].rgb # colors[j].rgb
       /\ Len(extracted.dominant_colors) - Len(extracted.tertiary_colors) <= 1

---------------------------------------------------------------------------
(* The hue arithmetic of the harmony generators in binary64.  A hue is held
   as [c, d]: the float that lies d units of 2^-48 below c hundredths of a
   degree (d = 0: the grid value itself).  Seeds are whole degrees above 16
   that are not powers of two, so every grid value met here is a float with
   an even significand. *)

MaxBelow == 9

(* the spacing of the floats just below c hundredths, in units of 2^-48 *)
UlpSteps(c) ==
  IF c <= 3200 THEN 1
  ELSE IF c <= 6400 THEN 2
  ELSE IF c <= 12800 THEN 4
  ELSE IF c <= 25600 THEN 8
  ELSE IF c <= 51200 THEN 16
  ELSE 32

(* the float nearest to c/100 - d * 2^-48, ties to the even significand *)
FloatRound(c, d) ==
  LET m == UlpSteps(c)
      q == d \div m
      r == d % m
      up == 2 * r > m \/ (2 * r = m /\ q % 2 = 1)
  IN [c |-> c, d |-> (IF up THEN q + 1 ELSE q) * m]

(* h + offset: exact when the sum is zero or negative (its magnitude is then
   below 16), rounded otherwise *)
FloatAdd(h, offset) ==
  LET c == h.c + offset * Hundredths
  IN IF c > 0 THEN FloatRound(c, h.d) ELSE [c |-> c, d |-> h.d]

(* x % 360 of a Python float: fmod(x, 360), exact, and 360 added, with
   rounding, when the remainder is negative *)
PyMod360(x) ==
  IF x.c > 360 * Hundredths \/ (x.c = 360 * Hundredths /\ x.d = 0)
    THEN [c |-> x.c - 360 * Hundredths, d |-> x.d]
  ELSE IF x.c > 0 \/ (x.c = 0 /\ x.d = 0) THEN x
  ELSE FloatRound(360 * Hundredths + x.c, x.d)

(* (h + offset) % 360 *)
ShiftHueFloat(h, offset) == PyMod360(FloatAdd(h, offset))

(* the hues of the colors the four generators derive from a seed hue:
   complementary, analogous 1..3, triadic 1..2, split-complementary 1..2 *)
DerivedHues(h) ==
  << ShiftHueFloat(h, 180),
     ShiftHueFloat(h, -30), ShiftHueFloat(h, 0), ShiftHueFloat(h, 30),
     ShiftHueFloat(h, 120), ShiftHueFloat(h, 240),
     ShiftHueFloat(ShiftHueFloat(h, 180), -30), ShiftHueFloat(ShiftHueFloat(h, 180), 30) >>

(* seed hues in whole degrees *)
FloatSeedDegrees == {17, 30, 60, 120, 150, 180, 210, 240, 330, 359}

FloatSeeds ==
  { [c |-> n * Hundredths, d |-> k * UlpSteps(n * Hundredths)] :
      n \in FloatSeedDegrees, k \in 0..MaxBelow }

InitHarmonyFloat ==
  /\ MixerIdle
  /\ ExtractorIdle
  /\ SharingIdle
  /\ arg \in [hue : FloatSeeds, s : SeedLevels, l : SeedLevels, ups : UniformFlags]
  /\ result = [done |-> FALSE]

(* the four generators on one seed: each derived color stores
   hsl = [new_h, s, l] and rgb = self._hsl_to_rgb([new_h, s, l]) *)
ApplyHarmonyFloat ==
  /\ ~result.done
  /\ LET hues == DerivedHues(arg.hue)
     IN result' = [done |-> TRUE,
                   hues |-> hues,
                   rgbs |-> [i \in 1..Len(hues) |->
                               hsl_to_rgb(<<hues[i].c, arg.s, arg.l>>, arg.ups)]]
  /\ UNCHANGED <<arg, mixer_vars, extractor_vars, sharing_vars>>

NextHarmonyFloat == ApplyHarmonyFloat

SpecHarmonyFloat == InitHarmonyFloat /\ [][NextHarmonyFloat]_vars

(* C25: every color the harmony generators derive from a seed with hue in
   [0, 360) and saturation and lightness in [0, 100] has hue in [0, 360) and
   rgb channels that are integers in [0, 255]. *)
C25_HueAndRgbInRange ==
  result.done =>
    \A i \in 1..Len(result.hues) :
      /\ result.hues[i].c >= 0
      /\ result.hues[i].c = 0 => result.hues[i].d = 0
      /\ result.hues[i].c <= 360 * Hundredths
      /\ result.hues[i].c = 360 * Hundredths => result.hues[i].d > 0
      /\ \A ch \in 1..3 : result.rgbs[i][ch] \in 0..255

---------------------------------------------------------------------------
(* C27: a brand name resolves to a brand's colors only if it is the name of
   a registered brand, compared without regard to case; for any other
   string the brand strategy hands back no recipe and the call does not
   return. *)
C27_OnlyRegisteredNamesResolve ==
  RunsBrandSpecific =>
    /\ (\E i \in Solved : paint_mixes[i].uses_available_paints)
         => IsRegisteredBrand(user_brand.text)
    /\ ~IsRegisteredBrand(user_brand.text) => pc # "done"

(* C28: a call that returns hands back exactly one recipe per target, in
   input order, recipe i being for target i; a call that raises, or has not
   returned yet, hands back no recipe at all. *)
C28_AllOrNothingInOrder ==
  /\ pc = "done" =>
       /\ Len(returned) = Len(target_colors)
       /\ \A i \in 1..Len(returned) : returned[i].target_color = target_colors[i]
  /\ pc # "done" => returned = <<>>

C28_Witness ==
  /\ pc = "done"
  /\ Len(returned) = 2
  /\ returned[1].target_color = <<0, 0, 0>>
  /\ returned[2].target_color = <<230, 30, 50>>
  /\ returned[1] # returned[2]

(* the strategy the dispatch table of C29 names for the current arguments *)
TableStrategy ==
  IF algorithm = "brand_specific" THEN "brand_specific"
  ELSE IF algorithm \in MixingAlgorithms THEN algorithm
  ELSE IF Truthy(user_brand) THEN "brand_specific"
  ELSE "k_nearest"

(* C29: for every algorithm name and brand the dispatch runs exactly the
   strategy of the table (brand_specific with a brand: the brand strategy;
   another registered name: that strategy; an unregistered name: the brand
   strategy with a brand, k-nearest without), called with the arguments it
   requires, so that no combination makes the call raise. *)
C29_DispatchTotal ==
  /\ pc # "raised"
  /\ log # <<>> => log[1] = TableStrategy

---------------------------------------------------------------------------
(* The request handlers of main.py.  A request is answered in one step; what
   the image pipeline does with an upload (whether it decodes, whether color
   extraction returns) is part of the request. *)

Handlers ==
  {"analyze_colors", "analyze_colors_with_brand", "mix_color_custom_volume", "get_brand_colors"}

(* total_volume_ml values, in ml *)
Volumes == {1, 5}

(* target_color of mix_color_custom_volume *)
HandlerTargets == { <<0, 0, 0>>, <<230, 30, 50>> }

Requests ==
  [ handler : Handlers, is_image : BOOLEAN, decodes : BOOLEAN, extracts : BOOLEAN,
    brand_name : BrandTexts, algorithm : AlgorithmNames,
    target_color : HandlerTargets, total_volume_ml : Volumes ]

(* what the body of a try block ends with *)
Completed == [kind |-> "ok", status |-> 200]
HttpRaised(status) == [kind |-> "http", status |-> status]
Failed == [kind |-> "error", status |-> 0]

(* except Exception as e: raise HTTPException(status_code=500, ...);
   HTTPException is an Exception *)
CatchAll(outcome) == IF outcome.kind = "ok" THEN 200 ELSE 500

(* except HTTPException: raise
   except Exception as e: raise HTTPException(status_code=500, ...) *)
RethrowHttp(outcome) == IF outcome.kind = "error" THEN 500 ELSE outcome.status

(* the fields iterating a PaintColor yields, as (name, value) pairs *)
PaintColorFields == <<"name", "brand", "color", "opacity">>

(* PaintMixer._generate_custom_volume_instructions: the loop is
   for i, (paint_color, ratio) in enumerate(base_colors), which unpacks each
   PaintColor itself into two names; ratios is read by sum() only *)
generate_custom_volume_instructions(base_colors, ratios, total_volume_ml) ==
  IF base_colors = <<>>
  THEN [raised |-> FALSE, cause |-> "", volumes |-> <<>>, drops |-> <<>>]
  ELSE IF Len(PaintColorFields) # 2
  THEN [raised |-> TRUE, cause |-> "ValueError", volumes |-> <<>>, drops |-> <<>>]
  ELSE [raised |-> TRUE, cause |-> "TypeError", volumes |-> <<>>, drops |-> <<>>]

(* whether generate_mixing_ratios raises for a non-empty list of colors *)
GenerateRaises(algorithm_name, brand) == algorithm_name = "brand_specific" /\ ~Truthy(brand)

(* the body of analyze_colors (brand = None, algorithm at its default) and
   of analyze_colors_with_brand *)
AnalyzeBody(req, algorithm_name, brand) ==
  IF ~req.is_image THEN HttpRaised(400)
  ELSE IF ~req.decodes \/ ~req.extracts THEN Failed
  ELSE IF GenerateRaises(algorithm_name, brand) THEN Failed
  ELSE Completed

(* the body of mix_color_custom_volume *)
CustomVolumeBody(req) ==
  LET brand_colors == get_brand_colors(req.brand_name)
  IN IF brand_colors = <<>> THEN HttpRaised(404)
     ELSE IF generate_custom_volume_instructions(
               ClosestPaints(brand_colors, req.target_color),
               InverseDistanceRatios(brand_colors, req.target_color),
               req.total_volume_ml).raised
     THEN Failed
     ELSE Completed

(* the body of get_brand_colors *)
BrandColorsBody(req) ==
  IF get_brand_colors(req.brand_name) = <<>> THEN HttpRaised(404) ELSE Completed

Response(body, status) ==
  [ done |-> TRUE, status |-> status,
    rejected |-> IF body.kind = "http" THEN body.status ELSE 0 ]

InitHandlers ==
  /\ MixerIdle
  /\ ExtractorIdle
  /\ SharingIdle
  /\ arg \in Requests
  /\ result = [done |-> FALSE, status |-> 0, rejected |-> 0]

AnalyzeColors ==
  /\ ~result.done
  /\ arg.handler = "analyze_colors"
  /\ LET body == AnalyzeBody(arg, "brand_specific", None)
     IN result' = Response(body, CatchAll(body))
  /\ UNCHANGED <<arg, mixer_vars, extractor_vars, sharing_vars>>

AnalyzeColorsWithBrand ==
  /\ ~result.done
  /\ arg.handler = "analyze_colors_with_brand"
  /\ LET body == AnalyzeBody(arg, arg.algorithm, Str(arg.brand_name))
     IN result' = Response(body, CatchAll(body))
  /\ UNCHANGED <<arg, mixer_vars, extractor_vars, sharing_vars>>

MixColorCustomVolume ==
  /\ ~result.done
  /\ arg.handler = "mix_color_custom_volume"
  /\ LET body == CustomVolumeBody(arg)
     IN result' = Response(body, CatchAll(body))
  /\ UNCHANGED <<arg, mixer_vars, extractor_vars, sharing_vars>>

GetBrandColors ==
  /\ ~result.done
  /\ arg.handler = "get_brand_colors"
  /\ LET body == BrandColorsBody(arg)
     IN result' = Response(body, RethrowHttp(body))
  /\ UNCHANGED <<arg, mixer_vars, extractor_vars, sharing_vars>>

NextHandlers ==
  \/ AnalyzeColors
  \/ AnalyzeColorsWithBrand
  \/ MixColorCustomVolume
  \/ GetBrandColors

SpecHandlers == InitHandlers /\ [][NextHandlers]_vars

(* C26: for the non-empty recipe the handler builds for a registered brand
   and a volume V > 0, _generate_custom_volume_instructions returns text
   (one volume and one drop count per paint, the volumes summing to V), and
   mix_color_custom_volume succeeds. *)
C26_CustomVolumeSucceeds ==
  (result.done /\ arg.handler = "mix_color_custom_volume" /\ IsRegisteredBrand(arg.brand_name)) =>
    LET brand_colors == get_brand_colors(arg.brand_name)
        base_colors == ClosestPaints(brand_colors, arg.target_color)
        text == generate_custom_volume_instructions(
                  base_colors, InverseDistanceRatios(brand_colors, arg.target_color),
                  arg.total_volume_ml)
    IN /\ ~text.raised
       /\ Len(text.volumes) = Len(base_colors)
       /\ Len(text.drops) = Len(base_colors)
       /\ result.status = 200

(* C30: in analyze_colors, analyze_colors_with_brand and
   mix_color_custom_volume a request that an explicit check rejects is
   answered with the status that check raises (400, 404); 500 answers only
   failures no check raised. *)
C30_RejectionKeepsStatus ==
  (result.done /\ arg.handler # "get_brand_colors" /\ result.rejected # 0)
    => result.status = result.rejected

====
